---- MODULE Spec2Model ----
(***************************************************************************)
(* Model of the TownRunner demo scene: TestScene (actor list, per-frame    *)
(* Update, addActor, removeActor), RigidbodyComponent::update in the two   *)
(* versions the repository holds, and the bouncing lights of Light.        *)
(* Positions are integers: one axis of the actor / rigid-body position,    *)
(* and fixed-point light coordinates.                                      *)
(***************************************************************************)
EXTENDS Integers, Sequences, FiniteSets, TLC

\* ---------------------------------------------------------------- bounds
NumTextures == 2     \* textures a caller can hand to Light::CreateSRB
NumFramebuffers == 2 \* framebuffers that can be cached in m_FramebufferCache
NumActors == 3       \* actor objects: 1 = helmet1, 2 = animPeople1, 3.. = actors handed to addActor
MaxLen == 3          \* cap on the length of TestScene::actors
MaxPos == 1          \* positions range over 0..MaxPos
MaxComps == 2        \* cap on the number of RigidbodyComponent objects
GridDim == 2         \* half-width of the light volume (Light.h is not part of the sources)
MaxDir == 1          \* light move directions range over -MaxDir..MaxDir

Actors == 1..NumActors
Pos == 0..MaxPos
Comps == 1..MaxComps
Helmet == 1
AnimPeople == 2
MaxElapsed == 2 * GridDim + 1
Coords == (0 - GridDim)..GridDim
Dirs == (0 - MaxDir)..MaxDir

VARIABLES
    inited,      \* TestScene::Initialize has run
    variant,     \* which RigidbodyComponent.cpp is built: "pull" or "push"
    actors,      \* TestScene::actors (std::vector<Actor*>)
    state,       \* Actor::state of every actor object
    position,    \* Actor position of every actor object
    destroyed,   \* actor objects that have been deleted
    owner,       \* Component::owner of every existing RigidbodyComponent
    rbPos,       \* position of the rigid-body transform of every component
    nullBody,    \* components whose _rigidBody handle is nullptr
    pc,          \* position inside TestScene::Update: "idle", "actors", "crashed"
    idx,         \* index of the range-for over actors in TestScene::Update
    key,         \* m_InputController.IsKeyDown(MoveBackward) of the running frame
    frameLog,    \* calls made by the running / last Update: 0 = physics step, a = actor a's Update
    physPos,     \* rbPos as left by the physics step of the running / last frame
    moved,       \* components whose rigid body that physics step moved
    lastComp,    \* component whose update returned last in the last actor step (0: none)
    deadActors,  \* the local deadActors of the last Update
    backOnEmpty, \* actors.back() was evaluated on an empty vector
    rendered,    \* RenderActor calls of the last Render: 0 = the environment map, a = actor a
    lastOp,      \* the operation that produced the current state
    m_Lights,    \* Light::m_Lights
    m_LightMoveDirs, \* Light::m_LightMoveDirs
    resState,    \* resource state of the four buffers Light creates ("none": not created)
    m_pLightVolumeSRB,  \* <<>> when null, else the <<colour, depth>> textures bound
    m_pAmbientLightSRB, \* <<>> when null, else the <<colour, depth>> textures bound
    m_FramebufferCache, \* Light::m_FramebufferCache
    srbArgs,     \* the <<colour, depth>> textures of the last CreateSRB call
    lightsBuffer \* contents of m_pLightsBuffer

sceneVars == <<inited, variant, actors, state, position, destroyed, owner, rbPos, nullBody,
               pc, idx, key, frameLog, physPos, moved, lastComp, deadActors, backOnEmpty,
               rendered>>
lightResVars == <<resState, m_pLightVolumeSRB, m_pAmbientLightSRB, m_FramebufferCache,
                  srbArgs, lightsBuffer>>
lightVars == <<m_Lights, m_LightMoveDirs, lightResVars>>
vars == <<sceneVars, lightVars, lastOp>>

\* ------------------------------------------------------------- helpers
Range(s) == {s[i] : i \in 1..Len(s)}

Count(s, a) == Cardinality({i \in 1..Len(s) : s[i] = a})

\* std::find(begin(actors), end(actors), actor): index of the first
\* occurrence, Len + 1 for end(actors).
Find(s, a) ==
    IF \E i \in 1..Len(s) : s[i] = a
    THEN CHOOSE i \in 1..Len(s) : s[i] = a /\ \A j \in 1..(i - 1) : s[j] # a
    ELSE Len(s) + 1

\* std::iter_swap(iter, end(actors) - 1)
IterSwap(s, i, j) == [s EXCEPT ![i] = s[j], ![j] = s[i]]

\* actors.pop_back()
PopBack(s) == SubSeq(s, 1, Len(s) - 1)

\* ---------------------------------------------------- RigidbodyComponent
NoOp == [op |-> "none", arg |-> 0]
Op(name, a) == [op |-> name, arg |-> a]

\* Components that exist (owner 0: the slot is free), in creation order.
Existing == {c \in Comps : owner[c] # 0}
CompsOf(a) == {c \in Comps : owner[c] = a}

\* RigidbodyComponent::update of the file under Projects/TownRunner: the
\* rigid body's position is written into the owner.
UpdatePull(c, st) == [st EXCEPT !.position[owner[c]] = st.rbPos[c]]

\* RigidbodyComponent::update of the other version: the owner's position is
\* written into the rigid body's transform.
UpdatePush(c, st) == [st EXCEPT !.rbPos[c] = st.position[owner[c]]]

\* An update that copies nothing.
UpdateNothing(c, st) == st

RigidbodyComponent_update(c, st) ==
    IF variant = "pull" THEN UpdatePull(c, st) ELSE UpdatePush(c, st)

\* Actor::Update: the update of every component the actor owns, in order.
RECURSIVE UpdateComponents(_, _)
UpdateComponents(cs, st) ==
    IF cs = {} THEN st
    ELSE LET c == CHOOSE x \in cs : \A y \in cs : x <= y
         IN  UpdateComponents(cs \ {c}, RigidbodyComponent_update(c, st))

Actor_Update(a, st) == UpdateComponents(CompsOf(a), st)

\* Actor::Update when a component's _rigidBody is nullptr: update reads the
\* position through the null handle, and g is whatever that read yields.
RECURSIVE UpdateComponentsUB(_, _, _)
UpdateComponentsUB(cs, st, g) ==
    IF cs = {} THEN st
    ELSE LET c == CHOOSE x \in cs : \A y \in cs : x <= y
             nxt == IF c \in nullBody
                    THEN [st EXCEPT !.position[owner[c]] = g]
                    ELSE RigidbodyComponent_update(c, st)
         IN  UpdateComponentsUB(cs \ {c}, nxt, g)

LastCompOf(a) ==
    IF CompsOf(a) = {} THEN 0
    ELSE CHOOSE x \in CompsOf(a) : \A y \in CompsOf(a) : y <= x

\* new RigidbodyComponent(actor, transform, world): createRigidBody(transform),
\* Component(ownerP); the new component takes the first free slot.
NewComponent(own, a) ==
    LET c == CHOOSE x \in Comps : own[x] = 0 /\ \A y \in Comps : own[y] = 0 => x <= y
    IN  c

\* ------------------------------------------------------------ TestScene
ZeroPos == [c \in Comps |-> 0]

Resources == {"ShaderConstantsCB", "CubeVertexBuffer", "CubeIndexBuffer", "LightsBuffer"}
NullSRB == <<>>

Init ==
    /\ inited = FALSE
    /\ variant \in {"pull", "push"}
    /\ actors = <<>>
    /\ state = [a \in Actors |-> "Active"]
    /\ position = [a \in Actors |-> 0]
    /\ destroyed = {}
    /\ owner = [c \in Comps |-> 0]
    /\ rbPos = ZeroPos
    /\ nullBody = {}
    /\ pc = "idle"
    /\ idx = 0
    /\ key = FALSE
    /\ frameLog = <<>>
    /\ physPos = ZeroPos
    /\ moved = {}
    /\ lastComp = 0
    /\ deadActors = <<>>
    /\ backOnEmpty = FALSE
    /\ rendered = <<>>
    /\ lastOp = NoOp
    /\ m_Lights = <<>>
    /\ m_LightMoveDirs = <<>>
    /\ resState = [r \in Resources |-> "none"]
    /\ m_pLightVolumeSRB = NullSRB
    /\ m_pAmbientLightSRB = NullSRB
    /\ m_FramebufferCache = {}
    /\ srbArgs = <<>>
    /\ lightsBuffer = <<>>

\* The record of the last frame and of the last Render describes the last
\* operation only: every other operation clears it.
ClearRecord ==
    /\ idx' = 0
    /\ key' = FALSE
    /\ frameLog' = <<>>
    /\ physPos' = ZeroPos
    /\ moved' = {}
    /\ lastComp' = 0
    /\ deadActors' = <<>>
    /\ backOnEmpty' = FALSE
    /\ rendered' = <<>>

\* TestScene::ActorCreation: helmet1 with a rigid body at the origin, then
\* animPeople1; both appended and placed at the origin.
ActorCreation ==
    LET c == NewComponent(owner, Helmet)
        acts == Append(Append(actors, Helmet), AnimPeople)
    IN  /\ owner' = [owner EXCEPT ![c] = Helmet]
        /\ rbPos' = [rbPos EXCEPT ![c] = 0]
        /\ actors' = acts
        /\ position' = [a \in Actors |-> IF a \in Range(acts) THEN 0 ELSE position[a]]

Initialize ==
    /\ ~inited
    /\ inited' = TRUE
    /\ ActorCreation
    /\ ClearRecord
    /\ lastOp' = Op("Initialize", 0)
    /\ UNCHANGED <<variant, state, destroyed, nullBody, pc, lightVars>>

\* A caller building an actor's rigid body the way ActorCreation does.
AttachRigidbody(a, p) ==
    /\ inited /\ pc = "idle"
    /\ \E c \in Comps : owner[c] = 0
    /\ a \notin destroyed
    /\ LET c == NewComponent(owner, a)
       IN  /\ owner' = [owner EXCEPT ![c] = a]
           /\ rbPos' = [rbPos EXCEPT ![c] = p]
    /\ ClearRecord
    /\ lastOp' = Op("AttachRigidbody", 0)
    /\ UNCHANGED <<inited, variant, actors, state, position, destroyed, nullBody, pc,
                   lightVars>>

\* A caller building a component with RigidbodyComponent(ownerP) or
\* RigidbodyComponent(ownerP, updateOrder), which only the version under
\* Projects/TownRunner has: _rigidBody = nullptr.
AttachRigidbodyNoBody(a) ==
    /\ inited /\ pc = "idle"
    /\ variant = "pull"
    /\ \E c \in Comps : owner[c] = 0
    /\ a \notin destroyed
    /\ LET c == NewComponent(owner, a)
       IN  /\ owner' = [owner EXCEPT ![c] = a]
           /\ nullBody' = nullBody \cup {c}
    /\ ClearRecord
    /\ lastOp' = Op("AttachRigidbody", 0)
    /\ UNCHANGED <<inited, variant, actors, state, position, destroyed, rbPos, pc,
                   lightVars>>

\* ReactPhysic::Update: the world step moves the rigid bodies that exist.
PhysicsOutcomes ==
    {r \in [Comps -> Pos] :
        \A c \in Comps : (owner[c] = 0 \/ c \in nullBody) => r[c] = rbPos[c]}

\* The frame begun without the physics step.
UpdateBeginNoPhysics(k, newRb) ==
    /\ inited /\ pc = "idle"
    /\ newRb = rbPos
    /\ physPos' = rbPos
    /\ moved' = {}
    /\ frameLog' = <<>>
    /\ key' = k
    /\ idx' = 1
    /\ pc' = "actors"
    /\ lastComp' = 0
    /\ deadActors' = <<>>
    /\ backOnEmpty' = FALSE
    /\ rendered' = <<>>
    /\ lastOp' = Op("UpdateBegin", 0)
    /\ UNCHANGED <<inited, variant, actors, state, position, destroyed, owner, nullBody, rbPos,
                   lightVars>>

\* TestScene::Update up to the actor loop: SampleBase::Update, the physics
\* step, the camera update.
UpdateBegin(k, newRb) ==
    /\ inited /\ pc = "idle"
    /\ newRb \in PhysicsOutcomes
    /\ rbPos' = newRb
    /\ physPos' = newRb
    /\ moved' = {c \in Comps : newRb[c] # rbPos[c]}
    /\ frameLog' = <<0>>
    /\ key' = k
    /\ idx' = 1
    /\ pc' = "actors"
    /\ lastComp' = 0
    /\ deadActors' = <<>>
    /\ backOnEmpty' = FALSE
    /\ rendered' = <<>>
    /\ lastOp' = Op("UpdateBegin", 0)
    /\ UNCHANGED <<inited, variant, actors, state, position, destroyed, owner, nullBody, lightVars>>

\* One iteration of "for (auto actor : actors) actor->Update(...)".
UpdateActorStep ==
    /\ pc = "actors" /\ idx <= Len(actors)
    /\ CompsOf(actors[idx]) \cap nullBody = {}
    /\ LET a == actors[idx]
           st == Actor_Update(a, [position |-> position, rbPos |-> rbPos])
       IN  /\ position' = st.position
           /\ rbPos' = st.rbPos
           /\ frameLog' = Append(frameLog, a)
           /\ lastComp' = LastCompOf(a)
    /\ lastOp' = Op("ActorUpdate", 0)
    /\ idx' = idx + 1
    /\ UNCHANGED <<inited, variant, actors, state, destroyed, owner, nullBody, pc, key, physPos,
                   moved, deadActors, backOnEmpty, rendered, lightVars>>

\* The same iteration for an actor that owns a component with a null
\* _rigidBody: update dereferences the handle, which is undefined. The frame
\* crashes there, or the read yields some position and the frame goes on.
UpdateActorStepNull ==
    /\ pc = "actors" /\ idx <= Len(actors)
    /\ CompsOf(actors[idx]) \cap nullBody # {}
    /\ \/ /\ pc' = "crashed"
          /\ UNCHANGED <<position, rbPos, frameLog, lastComp, idx>>
       \/ /\ \E g \in Pos :
                LET a == actors[idx]
                    st == UpdateComponentsUB(CompsOf(a),
                                             [position |-> position, rbPos |-> rbPos], g)
                IN  /\ position' = st.position
                    /\ rbPos' = st.rbPos
                    /\ frameLog' = Append(frameLog, a)
                    /\ lastComp' = LastCompOf(a)
          /\ idx' = idx + 1
          /\ pc' = pc
    /\ lastOp' = Op("ActorUpdateNull", 0)
    /\ UNCHANGED <<inited, variant, actors, state, destroyed, owner, nullBody, key,
                   physPos, moved, deadActors, backOnEmpty, rendered, lightVars>>

\* A setState that flips the state instead of setting it.
KillLastToggle(acts, st) ==
    [st EXCEPT ![acts[Len(acts)]] = IF @ = "Dead" THEN "Active" ELSE "Dead"]

\* actors.back()->setState(Actor::ActorState::Dead)
KillLast(acts, st) == [st EXCEPT ![acts[Len(acts)]] = "Dead"]

\* The loop that fills the local deadActors.
CollectDead(acts, st) == SelectSeq(acts, LAMBDA a : st[a] = "Dead")

\* "for (auto deadActor : deadActors) { }": the body is empty.
RemoveDead(acts, dead) == acts

\* The rest of TestScene::Update with a non-empty list, or with the key up.
UpdateEnd ==
    /\ pc = "actors" /\ idx > Len(actors)
    /\ ~(key /\ Len(actors) = 0)
    /\ LET st == IF key THEN KillLast(actors, state) ELSE state
           dead == CollectDead(actors, st)
       IN  /\ state' = st
           /\ deadActors' = dead
           /\ actors' = RemoveDead(actors, dead)
    /\ pc' = "idle"
    /\ lastOp' = Op("Update", 0)
    /\ UNCHANGED <<inited, variant, position, destroyed, owner, nullBody, rbPos, idx, key,
                   frameLog, physPos, moved, lastComp, backOnEmpty, rendered, lightVars>>

\* The rest of TestScene::Update with the key down and an empty list:
\* actors.back() is undefined, and so is the setState through it. The frame
\* crashes, or the write lands on no actor, or it lands on some actor object.
UpdateEndEmpty ==
    /\ pc = "actors" /\ idx > Len(actors)
    /\ key /\ Len(actors) = 0
    /\ backOnEmpty' = TRUE
    /\ \/ /\ pc' = "crashed"
          /\ UNCHANGED state
       \/ /\ pc' = "idle"
          /\ \E hit \in SUBSET Actors :
                /\ Cardinality(hit) <= 1
                /\ state' = [a \in Actors |-> IF a \in hit THEN "Dead" ELSE state[a]]
    /\ lastOp' = Op("Update", 0)
    /\ UNCHANGED <<inited, variant, actors, position, destroyed, owner, nullBody, rbPos, idx, key,
                   frameLog, physPos, moved, lastComp, deadActors, rendered, lightVars>>

\* TestScene::addActor; Actor::Initialize builds render resources only.
AddActor(a) ==
    /\ inited /\ pc = "idle"
    /\ Len(actors) < MaxLen
    /\ actors' = Append(actors, a)
    /\ ClearRecord
    /\ lastOp' = Op("addActor", 0)
    /\ UNCHANGED <<inited, variant, state, position, destroyed, owner, nullBody, rbPos, pc, lightVars>>

\* A removal by erase: the elements behind the removed one move up.
RemoveByErase(s, a) ==
    LET iter == Find(s, a)
    IN  IF iter # Len(s) + 1
        THEN SubSeq(s, 1, iter - 1) \o SubSeq(s, iter + 1, Len(s))
        ELSE s

\* The body of TestScene::removeActor on the list.
RemoveFromList(s, a) ==
    LET iter == Find(s, a)
    IN  IF iter # Len(s) + 1 THEN PopBack(IterSwap(s, iter, Len(s))) ELSE s

\* A removeActor that deletes the actor it takes out.
DeletedWithDelete(a) == {a}

\* What TestScene::removeActor deletes: nothing.
DeletedByRemove(a) == {}

RemoveActor(a) ==
    /\ inited /\ pc = "idle"
    /\ actors' = RemoveFromList(actors, a)
    /\ destroyed' = destroyed \cup DeletedByRemove(a)
    /\ ClearRecord
    /\ lastOp' = Op("removeActor", a)
    /\ UNCHANGED <<inited, variant, state, position, owner, nullBody, rbPos, pc, lightVars>>

\* TestScene::Render: the environment map, then every Active actor of the list.
Render ==
    /\ inited /\ pc = "idle"
    /\ rendered' = <<0>> \o SelectSeq(actors, LAMBDA a : state[a] = "Active")
    /\ lastOp' = Op("Render", 0)
    /\ idx' = 0
    /\ key' = FALSE
    /\ frameLog' = <<>>
    /\ physPos' = ZeroPos
    /\ moved' = {}
    /\ lastComp' = 0
    /\ deadActors' = <<>>
    /\ backOnEmpty' = FALSE
    /\ UNCHANGED <<inited, variant, actors, state, position, destroyed, owner, nullBody, rbPos,
                   pc, lightVars>>

Next ==
    \/ Initialize
    \/ \E a \in Actors, p \in Pos : AttachRigidbody(a, p)
    \/ \E a \in Actors : AttachRigidbodyNoBody(a)
    \/ \E k \in BOOLEAN, newRb \in [Comps -> Pos] : UpdateBegin(k, newRb)
    \/ UpdateActorStep
    \/ UpdateActorStepNull
    \/ UpdateEnd
    \/ UpdateEndEmpty
    \/ \E a \in Actors : AddActor(a)
    \/ \E a \in Actors : RemoveActor(a)
    \/ Render

Spec == Init /\ [][Next]_vars

\* ---------------------------------------------------------------- Light
Axes == 1..3
SizeVals == {1, 2}
ColorVals == {0, 1}

\* A clamp that mirrors at the maximum but keeps the direction there.
ClampNoFlipAtMax(Coord, Dir, Min, Max) ==
    IF Coord < Min THEN <<Coord + (Min - Coord) * 2, Dir * (0 - 1)>>
    ELSE IF Coord > Max THEN <<Coord - (Coord - Max) * 2, Dir>>
    ELSE <<Coord, Dir>>

\* The lambda ClampCoordinate of Light::UpdateLights: <<Coord, Dir>> after it.
ClampCoordinate(Coord, Dir, Min, Max) ==
    IF Coord < Min THEN <<Coord + (Min - Coord) * 2, Dir * (0 - 1)>>
    ELSE IF Coord > Max THEN <<Coord - (Coord - Max) * 2, Dir * (0 - 1)>>
    ELSE <<Coord, Dir>>

\* One light of Light::UpdateLights: Location += Dir * fElapsedTime, then
\* ClampCoordinate on x, y, z.
MoveLight(L, D, t) ==
    LET adv == [x \in Axes |-> L.Location[x] + D[x] * t]
        cl == [x \in Axes |-> ClampCoordinate(adv[x], D[x], 0 - GridDim, GridDim)]
    IN  [light |-> [L EXCEPT !.Location = [x \in Axes |-> cl[x][1]]],
         dir |-> [x \in Axes |-> cl[x][2]]]

\* Light::InitLights: random locations in the volume, sizes, colours and
\* move directions.
InitLights(loc, sz, col, d) ==
    /\ m_Lights' = <<[Location |-> loc, Size |-> sz, Color |-> col]>>
    /\ m_LightMoveDirs' = <<d>>

\* The state a buffer is in when the device has created it.
CreatedStates == {"UNDEFINED", "COPY_DEST"}

\* The barrier array without the lights instance buffer.
BarriersWithoutLights ==
    [r \in Resources \ {"LightsBuffer"} |->
        CASE r = "ShaderConstantsCB" -> "CONSTANT_BUFFER"
          [] r = "CubeVertexBuffer" -> "VERTEX_BUFFER"
          [] r = "CubeIndexBuffer" -> "INDEX_BUFFER"]

\* StateTransitionDesc Barriers[] of Light::Initialize: the new state of each
\* resource named (the old state RESOURCE_STATE_UNKNOWN stands for whatever
\* state the resource is in).
Barriers ==
    [r \in Resources |->
        CASE r = "ShaderConstantsCB" -> "CONSTANT_BUFFER"
          [] r = "CubeVertexBuffer" -> "VERTEX_BUFFER"
          [] r = "CubeIndexBuffer" -> "INDEX_BUFFER"
          [] r = "LightsBuffer" -> "VERTEX_BUFFER"]

\* m_pImmediateContext->TransitionResourceStates(_countof(Barriers), Barriers)
TransitionResourceStates(bar, rs) ==
    [r \in Resources |-> IF r \in DOMAIN bar THEN bar[r] ELSE rs[r]]

\* Light::Initialize: the buffers are created, InitLights, the pipeline
\* states, then the barriers.
LightInitialize(created, loc, sz, col, d) ==
    /\ m_Lights = <<>>
    /\ created \in [Resources -> CreatedStates]
    /\ InitLights(loc, sz, col, d)
    /\ resState' = TransitionResourceStates(Barriers, created)
    /\ lastOp' = Op("LightInitialize", 0)
    /\ UNCHANGED <<sceneVars, m_pLightVolumeSRB, m_pAmbientLightSRB, m_FramebufferCache,
                   srbArgs, lightsBuffer>>

InVolume(L) == \A x \in Axes : L.Location[x] \in Coords

\* Light::UpdateLights(fElapsedTime). A light that has left the volume can
\* move away without bound, so frames are followed while all lights are inside.
UpdateLights(t) ==
    /\ m_Lights # <<>>
    /\ \A i \in 1..Len(m_Lights) : InVolume(m_Lights[i])
    /\ m_Lights' = [i \in 1..Len(m_Lights) |-> MoveLight(m_Lights[i], m_LightMoveDirs[i], t).light]
    /\ m_LightMoveDirs' = [i \in 1..Len(m_Lights) |-> MoveLight(m_Lights[i], m_LightMoveDirs[i], t).dir]
    /\ lastOp' = Op("UpdateLights", t)
    /\ UNCHANGED <<sceneVars, lightResVars>>

\* The bindings Light::ApplyLighting makes: the resource, the state the use
\* needs, and the transition mode passed.
ApplyLightingBindings ==
    { [res |-> "ShaderConstantsCB", state |-> "CONSTANT_BUFFER", mode |-> "VERIFY"],
      [res |-> "CubeVertexBuffer", state |-> "VERTEX_BUFFER", mode |-> "VERIFY"],
      [res |-> "LightsBuffer", state |-> "VERTEX_BUFFER", mode |-> "VERIFY"],
      [res |-> "CubeIndexBuffer", state |-> "INDEX_BUFFER", mode |-> "VERIFY"] }

\* The resource states after the bindings: a binding made with
\* RESOURCE_STATE_TRANSITION_MODE_TRANSITION moves the resource, one made with
\* VERIFY leaves it.
AfterBindings(bs, rs) ==
    [r \in Resources |->
        IF \E b \in bs : b.res = r /\ b.mode = "TRANSITION"
        THEN (CHOOSE b \in bs : b.res = r /\ b.mode = "TRANSITION").state
        ELSE rs[r]]

\* Light::RenderActor: the constants are mapped, then Light::ApplyLighting
\* draws the ambient quad, copies m_Lights into the lights buffer, binds the
\* buffers and draws the light volumes. It runs in the render pass, with the
\* bindings CreateSRB made.
LightRenderActor ==
    /\ m_Lights # <<>>
    /\ m_pLightVolumeSRB # NullSRB /\ m_pAmbientLightSRB # NullSRB
    /\ lightsBuffer' = m_Lights
    /\ resState' = AfterBindings(ApplyLightingBindings, resState)
    /\ lastOp' = Op("RenderActor", 0)
    /\ UNCHANGED <<sceneVars, m_Lights, m_LightMoveDirs, m_pLightVolumeSRB,
                   m_pAmbientLightSRB, m_FramebufferCache, srbArgs>>

Textures == 1..NumTextures
Framebuffers == 1..NumFramebuffers

\* A binding that is made again on every call.
BindAlways(srb, color, depth) == <<color, depth>>

\* One "if (!srb) { create; set g_SubpassInputColor, g_SubpassInputDepthZ }" of
\* Light::CreateSRB.
BindIfNull(srb, color, depth) ==
    IF srb = NullSRB THEN <<color, depth>> ELSE srb

\* Light::CreateSRB(pColorBuffer, pDepthZBuffer), once the pipeline states exist.
CreateSRB(color, depth) ==
    /\ m_Lights # <<>>
    /\ m_pLightVolumeSRB' = BindIfNull(m_pLightVolumeSRB, color, depth)
    /\ m_pAmbientLightSRB' = BindIfNull(m_pAmbientLightSRB, color, depth)
    /\ srbArgs' = <<color, depth>>
    /\ lastOp' = Op("CreateSRB", 0)
    /\ UNCHANGED <<sceneVars, m_Lights, m_LightMoveDirs, resState, m_FramebufferCache,
                   lightsBuffer>>

\* Light::ReleaseWindowResources
ReleaseWindowResources ==
    /\ m_FramebufferCache' = {}
    /\ m_pLightVolumeSRB' = NullSRB
    /\ m_pAmbientLightSRB' = NullSRB
    /\ srbArgs' = <<>>
    /\ lastOp' = Op("ReleaseWindowResources", 0)
    /\ UNCHANGED <<sceneVars, m_Lights, m_LightMoveDirs, resState, lightsBuffer>>

\* A framebuffer of the current back buffer entering m_FramebufferCache.
CacheFramebuffer(f) ==
    /\ m_Lights # <<>>
    /\ f \notin m_FramebufferCache
    /\ m_FramebufferCache' = m_FramebufferCache \cup {f}
    /\ srbArgs' = <<>>
    /\ lastOp' = Op("CacheFramebuffer", 0)
    /\ UNCHANGED <<sceneVars, m_Lights, m_LightMoveDirs, resState, m_pLightVolumeSRB,
                   m_pAmbientLightSRB, lightsBuffer>>

\* The lights and their motion.
NextLight ==
    \/ /\ m_Lights = <<>>
       /\ \E created \in [Resources -> CreatedStates], loc \in [Axes -> Coords],
             sz \in SizeVals, col \in ColorVals, d \in [Axes -> Dirs] :
               LightInitialize(created, loc, sz, col, d)
    \/ \E t \in 0..MaxElapsed : UpdateLights(t)

InitLight == Init /\ variant = "pull"

SpecLight == InitLight /\ [][NextLight]_vars

\* The resources and bindings of Light, with one placement of the lights.
NextLightRes ==
    \/ \E created \in [Resources -> CreatedStates], loc \in [Axes -> {0}],
          sz \in SizeVals, col \in ColorVals, d \in [Axes -> {MaxDir}] :
            LightInitialize(created, loc, sz, col, d)
    \/ \E color \in Textures, depth \in Textures : CreateSRB(color, depth)
    \/ ReleaseWindowResources
    \/ \E f \in Framebuffers : CacheFramebuffer(f)
    \/ LightRenderActor

SpecLightRes == InitLight /\ [][NextLightRes]_vars

\* --------------------------------------------------------------- claims
FrameDone == lastOp.op = "Update" /\ pc = "idle"

\* C1: in every TestScene::Update the physics step comes before the Update
\* of any actor: each actor entry of the frame's call log is preceded by the
\* physics entry, and a rigid body whose owner has not been updated yet in the
\* frame still holds the position the physics step gave it.
C1_PhysicsBeforeActors ==
    /\ \A j \in 1..Len(frameLog) :
          frameLog[j] # 0 => \E i \in 1..(j - 1) : frameLog[i] = 0
    /\ pc = "actors" =>
          \A c \in Existing : owner[c] \notin Range(frameLog) => rbPos[c] = physPos[c]

C1_Witness ==
    /\ pc = "actors"
    /\ Len(frameLog) = 3
    /\ moved # {}

\* C2: when TestScene::Update returns, Update has been invoked exactly once
\* on every actor of the list, in list order.
C2_EachActorUpdatedOnce ==
    FrameDone =>
        /\ \A a \in Range(actors) : Count(frameLog, a) = 1
        /\ Tail(frameLog) = actors

\* C3: when TestScene::Update returns, no actor whose state is Dead is still
\* in the actor list.
C3_NoDeadActorAfterUpdate ==
    FrameDone => \A i \in 1..Len(actors) : state[actors[i]] # "Dead"

\* C4: removeActor(a) is a swap-and-pop. If a occurs in the list, the list
\* gets one shorter, the slot of a's first occurrence receives the former last
\* element, every other remaining slot keeps its element, and every actor
\* other than a occurs as often as before; if a does not occur, the list is
\* unchanged.
SwapAndPop(s, t, a) ==
    IF \E i \in 1..Len(s) : s[i] = a
    THEN LET first == CHOOSE i \in 1..Len(s) : s[i] = a /\ \A j \in 1..(i - 1) : s[j] # a
         IN  /\ Len(t) = Len(s) - 1
             /\ \A j \in 1..Len(t) : t[j] = IF j = first THEN s[Len(s)] ELSE s[j]
             /\ \A b \in Actors : Count(t, b) = Count(s, b) - (IF b = a THEN 1 ELSE 0)
    ELSE t = s

C4_RemoveIsSwapAndPop ==
    [][lastOp'.op = "removeActor" => SwapAndPop(actors, actors', lastOp'.arg)]_vars

C4_Witness ==
    /\ lastOp = Op("removeActor", Helmet)
    /\ Len(actors) = 2
    /\ actors[1] # AnimPeople
    /\ actors[2] = AnimPeople

\* C5: an actor that is Dead stays Dead, so its state changes from Active to
\* Dead at most once.
C5_DeadStaysDead ==
    [][\A a \in Actors : state[a] = "Dead" => state'[a] = "Dead"]_vars

C5_Witness ==
    /\ FrameDone
    /\ key
    /\ Len(actors) > 0
    /\ deadActors # <<>>
    /\ \E a \in Actors : state[a] = "Dead" /\ a # actors[Len(actors)]

\* C6: removeActor never takes an actor that is still Active out of the list.
C6_RemovedOnlyWhenDead ==
    [][(lastOp'.op = "removeActor" /\ Len(actors') < Len(actors))
          => state[lastOp'.arg] = "Dead"]_vars

\* C7: immediately after RigidbodyComponent::update returns, the position of
\* the owning actor equals the position of the component's rigid body.
C7_PositionsEqualAfterUpdate ==
    (lastOp.op = "ActorUpdate" /\ lastComp # 0)
        => position[owner[lastComp]] = rbPos[lastComp]

C7_Witness ==
    /\ lastOp.op = "ActorUpdate"
    /\ lastComp # 0
    /\ lastComp \in moved
    /\ position[owner[lastComp]] = rbPos[lastComp]

\* C8: if the physics step of a frame moved the rigid body of an actor of the
\* list (the actor's only rigid body), then when TestScene::Update returns the
\* actor's position is the position the physics step gave the rigid body.
C8_ActorFollowsPhysics ==
    FrameDone =>
        \A c \in moved :
            (owner[c] \in Range(actors) /\ CompsOf(owner[c]) = {c})
                => position[owner[c]] = physPos[c]

\* C9: every coordinate of every light's Location lies in
\* [-GridDim, +GridDim] after InitLights and any UpdateLights calls.
C9_LightsInVolume ==
    \A i \in 1..Len(m_Lights) : InVolume(m_Lights[i])

\* C10: the owner of every existing component is an actor that has not been
\* destroyed, whatever addActor, removeActor and Update have done.
C10_OwnerValid ==
    \A c \in Existing : owner[c] \notin destroyed

C10_Witness ==
    /\ lastOp.op = "removeActor"
    /\ \E c \in Existing : owner[c] = lastOp.arg /\ owner[c] \notin Range(actors)


\* C11: in every TestScene::Render the environment map is rendered first,
\* then RenderActor is invoked exactly once on each Active actor of the list,
\* in list order, and never on a Dead actor.
C11_RenderEachActiveOnce ==
    lastOp.op = "Render" =>
        /\ Len(rendered) >= 1 /\ rendered[1] = 0
        /\ \A i \in 2..Len(rendered) : rendered[i] # 0
        /\ \A a \in Range(actors) :
              Count(rendered, a) = (IF state[a] = "Active" THEN 1 ELSE 0)
        /\ Tail(rendered) = SelectSeq(actors, LAMBDA a : state[a] = "Active")

\* C15: in a TestScene::Update with the MoveBackward key down the last actor
\* of the list is set to Dead after every actor of the frame has been updated
\* and no other actor's state changes; with the key up no state changes.
C15_OnlyLastActorKilled ==
    [][lastOp'.op = "Update" =>
          /\ Len(frameLog) = Len(actors) + 1
          /\ IF key
             THEN /\ Len(actors) > 0
                  /\ state' = [state EXCEPT ![actors[Len(actors)]] = "Dead"]
             ELSE state' = state]_vars

\* C16: TestScene::Update never evaluates actors.back() on an empty list.
C16_BackNeverOnEmpty ==
    backOnEmpty = FALSE

\* C18: after removeActor(a) returns, a occurs nowhere in the actor list.
C18_RemovedActorAbsent ==
    lastOp.op = "removeActor" => lastOp.arg \notin Range(actors)


\* C17: RigidbodyComponent::update never dereferences a null rigid-body
\* handle: whenever the actor loop is about to update an actor, every
\* RigidbodyComponent of that actor has a non-null _rigidBody.
C17_HandleNonNullAtUpdate ==
    (pc = "actors" /\ idx <= Len(actors)) =>
        \A c \in CompsOf(actors[idx]) : c \notin nullBody

Abs(n) == IF n < 0 THEN 0 - n ELSE n

\* C12: once Light::Initialize has run, every resource Light::ApplyLighting
\* binds (shader constants buffer, cube vertex buffer, cube index buffer,
\* lights instance buffer) is bound with VERIFY and is already in the state
\* that use needs, so no transition is needed or requested in the render pass.
C12_NoTransitionInRenderPass ==
    m_Lights # <<>> =>
        /\ {b.res : b \in ApplyLightingBindings} = Resources
        /\ \A b \in ApplyLightingBindings :
              b.mode = "VERIFY" /\ resState[b.res] = b.state

C12_Witness ==
    /\ lastOp.op = "RenderActor"
    /\ lightsBuffer = m_Lights
    /\ \A r \in Resources : resState[r] # "none"

\* C13: in Light::UpdateLights, for each light and axis, the coordinate
\* advanced by Dir * elapsed time is mirrored about the minimum when below it
\* and about the maximum when above it, the direction component is negated in
\* exactly those two cases, and a coordinate inside [Min, Max] keeps both;
\* the absolute value of each direction component, Size and Color never change.
C13_MirrorAtBounds ==
    [][lastOp'.op = "UpdateLights" =>
          /\ Len(m_Lights') = Len(m_Lights)
          /\ \A i \in 1..Len(m_Lights) :
                /\ m_Lights'[i].Size = m_Lights[i].Size
                /\ m_Lights'[i].Color = m_Lights[i].Color
                /\ \A x \in Axes :
                      LET d == m_LightMoveDirs[i][x]
                          adv == m_Lights[i].Location[x] + d * lastOp'.arg
                          c2 == m_Lights'[i].Location[x]
                          d2 == m_LightMoveDirs'[i][x]
                      IN  /\ adv < 0 - GridDim =>
                                c2 = 2 * (0 - GridDim) - adv /\ d2 = 0 - d
                          /\ adv > GridDim =>
                                c2 = 2 * GridDim - adv /\ d2 = 0 - d
                          /\ (adv >= 0 - GridDim /\ adv <= GridDim) =>
                                c2 = adv /\ d2 = d
                          /\ Abs(d2) = Abs(d)]_vars

\* A state after UpdateLights in which one axis was mirrored: moving the
\* coordinate back along its present direction leaves the volume, which a
\* coordinate that was only advanced cannot do.
C13_Witness ==
    /\ lastOp.op = "UpdateLights"
    /\ \E x \in Axes :
          /\ m_LightMoveDirs[1][x] # 0
          /\ m_Lights[1].Location[x] \in Coords
          /\ m_Lights[1].Location[x] - m_LightMoveDirs[1][x] * lastOp.arg \notin Coords

\* C14: Light::CreateSRB binds each of the two shader resource bindings only
\* when it is null (to the textures of that call) and otherwise changes
\* nothing; Light::ReleaseWindowResources leaves both bindings null and the
\* framebuffer cache empty.
C14_CreateSRBIdempotent ==
    [][/\ lastOp'.op = "CreateSRB" =>
            /\ m_pLightVolumeSRB' =
                  (IF m_pLightVolumeSRB = NullSRB THEN srbArgs' ELSE m_pLightVolumeSRB)
            /\ m_pAmbientLightSRB' =
                  (IF m_pAmbientLightSRB = NullSRB THEN srbArgs' ELSE m_pAmbientLightSRB)
            /\ m_FramebufferCache' = m_FramebufferCache
       /\ lastOp'.op = "ReleaseWindowResources" =>
            /\ m_pLightVolumeSRB' = NullSRB
            /\ m_pAmbientLightSRB' = NullSRB
            /\ m_FramebufferCache' = {}]_vars

\* A second CreateSRB with other textures that left both bindings as they were.
C14_Witness ==
    /\ lastOp.op = "CreateSRB"
    /\ m_pLightVolumeSRB # NullSRB /\ m_pLightVolumeSRB # srbArgs
    /\ m_pAmbientLightSRB # NullSRB /\ m_pAmbientLightSRB # srbArgs

====
